---- MODULE Spec2Model ----
(***************************************************************************)
(* Model of calendar_mcp/calendar.py: the five calendar tools              *)
(* (create_event, update_event, get_free_slots, get_events_at_time,        *)
(* list_events), the Authenticator and Calendar Provider they call, and    *)
(* the free/busy sweep of get_free_slots.                                   *)
(*                                                                         *)
(* Time is counted in whole minutes.  A datetime is a record               *)
(*   [loc |-> wall-clock minutes since 00:00 of day 0,                     *)
(*    off |-> UTC offset in minutes, aware |-> has a tzinfo]               *)
(* so that the instant it denotes is loc - off.  A timestamp text is a     *)
(* record [form, loc, off] with form one of "offset", "Z", "naive",        *)
(* "date" (date only) and "bad" (not ISO-8601).                            *)
(***************************************************************************)
EXTENDS Integers, Sequences, FiniteSets, TLC

VARIABLES call, env, requests, result, locals

vars == <<call, env, requests, result, locals>>

\* ------------------------------------------------------------------ bounds
\* Longest busy list the provider returns.
MaxBusy == 2
\* Last calendar day (day 0 is the first) a range end may fall on.
MaxDay == 1

\* --------------------------------------------------------------- constants
SecondsPerMinute == 60
MinutesPerHour == 60
HoursPerDay == 24
MinutesPerDay == HoursPerDay * MinutesPerHour

\* ------------------------------------------------------- datetime algebra
DT(loc, off, aware) == [loc |-> loc, off |-> off, aware |-> aware]

\* The instant an aware datetime denotes (a naive one: its wall clock).
Utc(d) == d.loc - d.off

\* Python raises TypeError when it orders a naive and an aware datetime.
Comparable(a, b) == a.aware = b.aware

Lt(a, b) == Utc(a) < Utc(b)
Le(a, b) == Utc(a) <= Utc(b)
Gt(a, b) == Utc(a) > Utc(b)
Ge(a, b) == Utc(a) >= Utc(b)

\* Python's min(a, b) and max(a, b): the first argument wins a tie.
py_min(a, b) == IF Lt(b, a) THEN b ELSE a
py_max(a, b) == IF Gt(b, a) THEN b ELSE a

\* d.date() as a day number, and d.replace(hour=h, minute=0, second=0, ...).
DateOf(d) == d.loc \div MinutesPerDay
ReplaceHour(d, h) == DT(DateOf(d) * MinutesPerDay + h * MinutesPerHour, d.off, d.aware)

\* (b - a).total_seconds()
TotalSeconds(a, b) == (Utc(b) - Utc(a)) * SecondsPerMinute

\* d + timedelta(minutes=m)
PlusMinutes(d, m) == DT(d.loc + m, d.off, d.aware)

\* ------------------------------------------------------------ _parse_iso8601
Text(form, loc, off) == [form |-> form, loc |-> loc, off |-> off]

\* [ok |-> FALSE] stands for the ValueError of datetime.fromisoformat.
parse_iso8601(s) ==
    CASE s.form = "bad" -> [ok |-> FALSE, dt |-> DT(0, 0, FALSE)]
      [] s.form = "Z" -> [ok |-> TRUE, dt |-> DT(s.loc, 0, TRUE)]
      [] s.form = "offset" -> [ok |-> TRUE, dt |-> DT(s.loc, s.off, TRUE)]
      [] s.form = "naive" -> [ok |-> TRUE, dt |-> DT(s.loc, 0, FALSE)]
      [] s.form = "date" -> [ok |-> TRUE, dt |-> DT(DateOf(s) * MinutesPerDay, 0, FALSE)]

\* dt.replace(tzinfo=...) applied when dt.tzinfo is None.
WithDefaultOffset(d, off) == IF d.aware THEN d ELSE DT(d.loc, off, TRUE)

\* ------------------------------------------------ get_free_slots: busy ranges
Range(s, e) == [start |-> s, end |-> e]

\* The provider's busy entry {"start": text, "end": text}, both parsed as they are.
parse_busy(b) == Range(parse_iso8601(b.start).dt, parse_iso8601(b.end).dt)

\* list.sort(key=lambda x: x[0]) is stable: x goes after every start <= its own.
RECURSIVE insert_by_start(_, _)
insert_by_start(sorted, x) ==
    IF sorted = <<>> THEN <<x>>
    ELSE IF Le(sorted[Len(sorted)].start, x.start) THEN Append(sorted, x)
    ELSE Append(insert_by_start(SubSeq(sorted, 1, Len(sorted) - 1), x), sorted[Len(sorted)])

\* Mutant of sort_by_start: the list is swept in the order the provider sent it.
sort_by_start_unsorted(rs) == rs

RECURSIVE sort_by_start(_)
sort_by_start(rs) ==
    IF rs = <<>> THEN <<>>
    ELSE insert_by_start(sort_by_start(SubSeq(rs, 1, Len(rs) - 1)), rs[Len(rs)])

\* err = "ValueError": a text that does not parse; "TypeError": the sort orders
\* a naive start against an aware one.
busy_ranges(busy_list) ==
    LET parsed == [i \in 1..Len(busy_list) |-> parse_busy(busy_list[i])]
        bad == \E i \in 1..Len(busy_list) :
                  \/ ~parse_iso8601(busy_list[i].start).ok
                  \/ ~parse_iso8601(busy_list[i].end).ok
        mixed == \E i, j \in 1..Len(parsed) : ~Comparable(parsed[i].start, parsed[j].start)
    IN  IF bad THEN [err |-> "ValueError", ranges |-> <<>>]
        ELSE IF mixed THEN [err |-> "TypeError", ranges |-> <<>>]
        ELSE [err |-> "none", ranges |-> sort_by_start(parsed)]

\* ------------------------------------------- get_free_slots: working hours
work_start(current, q) == ReplaceHour(current, q.working_hours_start)
work_end(current, q) == ReplaceHour(current, q.working_hours_end)

\* Mutant of slot_start: every slot starts at the day's work start.
slot_start_unclipped(current, q) == ReplaceHour(current, q.working_hours_start)

slot_start(current, q) == py_max(current, work_start(current, q))
\* Mutant of slot_end: the slot runs to the end of the gap.
slot_end_unclipped(current, gap_end, q) == gap_end

slot_end(current, gap_end, q) == py_min(gap_end, work_end(current, q))

\* Mutants of slot_ok: no duration test; a strict duration test.
slot_ok_no_floor(s, e, q) == Lt(s, e)
slot_ok_strict(s, e, q) ==
    Lt(s, e) /\ TotalSeconds(s, e) > q.min_duration_minutes * SecondsPerMinute

\* The test that guards the yield.
slot_ok(s, e, q) ==
    Lt(s, e) /\ TotalSeconds(s, e) >= q.min_duration_minutes * SecondsPerMinute

\* Start of the next day's working hours, in the gap start's offset.
next_day_start(current, gap_start, q) ==
    DT((DateOf(current) + 1) * MinutesPerDay + q.working_hours_start * MinutesPerHour,
       gap_start.off, gap_start.aware)

RECURSIVE clip_from(_, _, _, _)
clip_from(current, gap_start, gap_end, q) ==
    IF ~Lt(current, gap_end) THEN <<>>
    ELSE LET s == slot_start(current, q)
             e == slot_end(current, gap_end, q)
             out == IF slot_ok(s, e, q) THEN <<Range(s, e)>> ELSE <<>>
         IN  out \o clip_from(next_day_start(current, gap_start, q), gap_start, gap_end, q)

clip_to_working_hours(gap_start, gap_end, q) == clip_from(gap_start, gap_start, gap_end, q)

\* ------------------------------------------------- get_free_slots: the sweep
\* Mutant of gap_end_of: the gap runs to the range end, through the busy interval.
gap_end_of_range(bs, q) == q.end_dt

gap_end_of(bs, q) == py_min(bs, q.end_dt)
advance(current, be) == py_max(current, be)

\* The for loop over busy_ranges from index i on, then the trailing gap.
\* err = "TypeError" when a naive busy bound is ordered against the cursor.
RECURSIVE sweep(_, _, _, _, _)
sweep(i, current, free, ranges, q) ==
    IF i > Len(ranges)
    THEN [err |-> "none",
          slots |-> IF Lt(current, q.end_dt)
                    THEN free \o clip_to_working_hours(current, q.end_dt, q)
                    ELSE free]
    ELSE LET bs == ranges[i].start
             be == ranges[i].end
         IN  IF ~Comparable(be, current) THEN [err |-> "TypeError", slots |-> free]
             ELSE IF Le(be, current) THEN sweep(i + 1, current, free, ranges, q)
             ELSE IF ~Comparable(bs, current) THEN [err |-> "TypeError", slots |-> free]
             ELSE LET free2 == IF Gt(bs, current)
                               THEN free \o clip_to_working_hours(current, gap_end_of(bs, q), q)
                               ELSE free
                      cur2 == advance(current, be)
                  IN  IF Ge(cur2, q.end_dt)
                      THEN [err |-> "none", slots |-> free2]
                      ELSE sweep(i + 1, cur2, free2, ranges, q)

free_slots(ranges, q) == sweep(1, q.start_dt, <<>>, ranges, q)

\* ------------------------------------------------------- errors and outcomes
\* A tool's return value: kind names the text of errors.py (or the success /
\* empty text of the tool, or RAISED for an exception that leaves the tool),
\* data holds what the text carries (the slots, the events, the exception).
Result(kind, data) == [kind |-> kind, data |-> data]

AUTH_EXPIRED == Result("AUTH_EXPIRED", <<>>)
QUOTA_EXCEEDED == Result("QUOTA_EXCEEDED", <<>>)
NETWORK_FAILURE == Result("NETWORK_FAILURE", <<>>)
unexpected_failure(message) == Result("UNEXPECTED_FAILURE", <<message>>)
event_not_found(event_id) == Result("EVENT_NOT_FOUND", <<event_id>>)
event_in_past(start_time) == Result("EVENT_IN_PAST", <<start_time>>)
Raised(exception) == Result("RAISED", <<exception>>)

\* What a provider request does: it answers, raises HttpError(status) whose
\* text mentions the quota or not, or raises another exception.
Outcome(type, status, quota) == [type |-> type, status |-> status, quota |-> quota]
Answered == Outcome("ok", 200, FALSE)

\* The except HttpError clause shared by the tools.
http_error_result(o) ==
    IF o.status = 403 /\ o.quota THEN QUOTA_EXCEEDED
    ELSE IF o.status >= 500 THEN NETWORK_FAILURE
    ELSE unexpected_failure("HttpError")

\* The except clauses after a provider request that did not answer.
request_error_result(o) ==
    IF o.type = "http" THEN http_error_result(o) ELSE unexpected_failure("Exception")

\* Mutant of update_error_result: the 404 test is missing.
update_error_result_no_404(o, event_id) ==
    IF o.type = "http" THEN http_error_result(o) ELSE unexpected_failure("Exception")

\* update_event's clauses: a 404 is looked at first.
update_error_result(o, event_id) ==
    IF o.type = "http" /\ o.status = 404 THEN event_not_found(event_id)
    ELSE request_error_result(o)

\* Mutant of get_service: a tool without its except FileNotFoundError clause.
get_service_no_clause(e) ==
    IF e.creds = "ok" THEN [ok |-> TRUE, result |-> Result("", <<>>)]
    ELSE [ok |-> FALSE, result |-> unexpected_failure("Exception")]

\* _get_service: get_credentials raises FileNotFoundError, raises something
\* else, or returns credentials; no provider request is made by build().
get_service(e) ==
    CASE e.creds = "ok" -> [ok |-> TRUE, result |-> Result("", <<>>)]
      [] e.creds = "FileNotFoundError" -> [ok |-> FALSE, result |-> AUTH_EXPIRED]
      [] OTHER -> [ok |-> FALSE, result |-> unexpected_failure("Exception")]

\* _get_user_timezone: the account's zone, held as its offset; "UTC" is 0.
DEFAULT_TIMEZONE == 0
get_user_timezone(e) ==
    IF e.tz_read.type = "ok" /\ e.tz_read.has_value THEN e.tz_read.value
    ELSE DEFAULT_TIMEZONE

\* ----------------------------------------------------------- get_free_slots
NoDT == DT(0, 0, FALSE)
Locals(stage, tz, start_dt, end_dt, ranges) ==
    [stage |-> stage, tz |-> tz, start_dt |-> start_dt, end_dt |-> end_dt,
     busy_ranges |-> ranges]

Ret(reqs, res, loc) == [requests |-> reqs, result |-> res, locals |-> loc]

\* The query the sweep works on.
Query(a, start_dt, end_dt) ==
    [start_dt |-> start_dt, end_dt |-> end_dt,
     min_duration_minutes |-> a.min_duration_minutes,
     working_hours_start |-> a.working_hours_start,
     working_hours_end |-> a.working_hours_end]

\* Lines 217-267: busy ranges, sweep, text. Nothing here is inside a try.
gfs_compute(a, e, tz, start_dt, end_dt, reqs) ==
    LET br == busy_ranges(e.freebusy.busy)
        q == Query(a, start_dt, end_dt)
        fs == free_slots(br.ranges, q)
    IN  IF br.err # "none"
        THEN Ret(reqs, Raised(br.err), Locals("busy", tz, start_dt, end_dt, <<>>))
        ELSE IF fs.err # "none"
        THEN Ret(reqs, Raised(fs.err), Locals("sweep", tz, start_dt, end_dt, br.ranges))
        ELSE Ret(reqs,
                 IF fs.slots = <<>> THEN Result("NO_FREE_SLOTS", <<>>)
                 ELSE Result("FREE_SLOTS", fs.slots),
                 Locals("sweep", tz, start_dt, end_dt, br.ranges))

\* Lines 199-215: the free/busy request.
gfs_query(a, e, tz, start_dt, end_dt) ==
    LET reqs == <<"settings.get", "freebusy.query">>
    IN  IF e.freebusy.type # "ok"
        THEN Ret(reqs, request_error_result(e.freebusy),
                 Locals("query", tz, start_dt, end_dt, <<>>))
        ELSE gfs_compute(a, e, tz, start_dt, end_dt, reqs)

\* Range start: a naive one takes the local system offset.
range_start(a, e) == WithDefaultOffset(parse_iso8601(a.start_date).dt, e.local_off)
\* Range end: a naive one takes the start's offset.
range_end(a, start_dt) == WithDefaultOffset(parse_iso8601(a.end_date).dt, start_dt.off)

get_free_slots_fn(a, e) ==
    LET svc == get_service(e)
        tz == get_user_timezone(e)
        start_dt == range_start(a, e)
        end_dt == range_end(a, start_dt)
    IN  IF ~svc.ok
        THEN Ret(<<>>, svc.result, Locals("auth", DEFAULT_TIMEZONE, NoDT, NoDT, <<>>))
        ELSE IF ~parse_iso8601(a.start_date).ok \/ ~parse_iso8601(a.end_date).ok
        THEN Ret(<<"settings.get">>, unexpected_failure("ValueError"),
                 Locals("parse", tz, NoDT, NoDT, <<>>))
        ELSE gfs_query(a, e, tz, start_dt, end_dt)

\* ------------------------------------------------------------- create_event
\* Mutant of get_tz_aware_now: the UTC wall clock labelled with the local offset.
get_tz_aware_now_utc_clock(e) == DT(e.now, e.local_off, TRUE)

\* _get_tz_aware_now(): the clock, read in the local system offset.
get_tz_aware_now(e) == DT(e.now + e.local_off, e.local_off, TRUE)

Some(v) == [some |-> TRUE, v |-> v]
None == [some |-> FALSE, v |-> Text("bad", 0, 0)]

create_event_fn(a, e) ==
    LET svc == get_service(e)
        p == parse_iso8601(a.start_time)
        start_dt == WithDefaultOffset(p.dt, get_tz_aware_now(e).off)
        end_dt == PlusMinutes(start_dt, a.duration_minutes)
        body == [start |-> start_dt, end |-> end_dt]
    IN  IF ~svc.ok THEN Ret(<<>>, svc.result, [stage |-> "auth"])
        ELSE IF ~p.ok THEN Ret(<<>>, unexpected_failure("ValueError"), [stage |-> "parse"])
        ELSE IF Lt(start_dt, get_tz_aware_now(e))
        THEN Ret(<<>>, event_in_past(a.start_time), [stage |-> "past", start_dt |-> start_dt])
        ELSE Ret(<<"events.insert">>,
                 IF e.insert.type = "ok" THEN Result("CREATED", <<body>>)
                 ELSE request_error_result(e.insert),
                 [stage |-> "insert", start_dt |-> start_dt])

\* ------------------------------------------------------------- update_event
\* existing.get(k, {}).get("dateTime") or existing.get(k, {}).get("date")
\* is held as an optional text: old.start, old.end.

\* The patch's "end" when start_time is given (lines 131-146).
\* kind: "set" (with dt), "absent", or the exception that leaves the tool.
patch_end_with_start(a, old, start_dt) ==
    IF a.duration_minutes.some
    THEN [kind |-> "set", dt |-> PlusMinutes(start_dt, a.duration_minutes.v)]
    ELSE IF ~(old.start.some /\ old.end.some) THEN [kind |-> "absent", dt |-> NoDT]
    ELSE LET s == parse_iso8601(old.start.v)
             en == parse_iso8601(old.end.v)
         IN  IF ~s.ok \/ ~en.ok THEN [kind |-> "ValueError", dt |-> NoDT]
             ELSE IF ~Comparable(s.dt, en.dt) THEN [kind |-> "TypeError", dt |-> NoDT]
             ELSE [kind |-> "set", dt |-> PlusMinutes(start_dt, Utc(en.dt) - Utc(s.dt))]

\* The patch's "end" when only duration_minutes is given (lines 147-152).
patch_end_without_start(a, old) ==
    IF ~old.start.some THEN [kind |-> "absent", dt |-> NoDT]
    ELSE LET s == parse_iso8601(old.start.v)
         IN  IF ~s.ok THEN [kind |-> "ValueError", dt |-> NoDT]
             ELSE [kind |-> "set", dt |-> PlusMinutes(s.dt, a.duration_minutes.v)]

\* Lines 123-152: the fields of the patch, or the exception raised on the way.
build_patch(a, old) ==
    LET p == IF a.start_time.some THEN parse_iso8601(a.start_time.v) ELSE [ok |-> TRUE, dt |-> NoDT]
        pe == IF a.start_time.some THEN patch_end_with_start(a, old, p.dt)
              ELSE IF a.duration_minutes.some THEN patch_end_without_start(a, old)
              ELSE [kind |-> "absent", dt |-> NoDT]
        fields == (IF a.has_title THEN {"summary"} ELSE {})
                  \cup (IF a.has_description THEN {"description"} ELSE {})
                  \cup (IF a.has_location THEN {"location"} ELSE {})
                  \cup (IF a.start_time.some THEN {"start"} ELSE {})
                  \cup (IF pe.kind = "set" THEN {"end"} ELSE {})
    IN  IF ~p.ok THEN [err |-> "ValueError", fields |-> {}]
        ELSE IF pe.kind \in {"ValueError", "TypeError"} THEN [err |-> pe.kind, fields |-> {}]
        ELSE [err |-> "none", fields |-> fields]

update_event_fn(a, e) ==
    LET svc == get_service(e)
        patch == build_patch(a, e.existing)
    IN  IF ~svc.ok THEN Ret(<<>>, svc.result, [stage |-> "auth"])
        ELSE IF e.get.type # "ok"
        THEN Ret(<<"events.get">>, update_error_result(e.get, a.event_id), [stage |-> "get"])
        ELSE IF patch.err # "none"
        THEN Ret(<<"events.get">>, Raised(patch.err), [stage |-> "build"])
        ELSE IF patch.fields = {}
        THEN Ret(<<"events.get">>, Result("NO_CHANGES", <<>>), [stage |-> "build"])
        ELSE Ret(<<"events.get", "events.patch">>,
                 IF e.patch.type = "ok" THEN Result("UPDATED", <<patch.fields>>)
                 ELSE update_error_result(e.patch, a.event_id),
                 [stage |-> "patch"])

\* ------------------------------------------------------- get_events_at_time
\* Lines 308-322 for one event: "skip", "in", "out", or "ValueError".
event_at(ev, dt) ==
    IF ~(ev.start.some /\ ev.end.some) THEN "skip"
    ELSE LET s == parse_iso8601(ev.start.v)
             en == parse_iso8601(ev.end.v)
             ev_start == WithDefaultOffset(s.dt, dt.off)
             ev_end == WithDefaultOffset(en.dt, dt.off)
         IN  IF ~s.ok \/ ~en.ok THEN "ValueError"
             ELSE IF Le(ev_start, dt) /\ Le(dt, ev_end) THEN "in" ELSE "out"

RECURSIVE overlapping(_, _, _)
overlapping(events, i, dt) ==
    IF i > Len(events) THEN <<>>
    ELSE (IF event_at(events[i], dt) = "in" THEN <<i>> ELSE <<>>)
         \o overlapping(events, i + 1, dt)

get_events_at_time_fn(a, e) ==
    LET svc == get_service(e)
        p == parse_iso8601(a.datetime_str)
        dt == WithDefaultOffset(p.dt, e.local_off)
        window == [timeMin |-> PlusMinutes(dt, 0 - MinutesPerDay),
                   timeMax |-> PlusMinutes(dt, MinutesPerDay)]
        hit == overlapping(e.events, 1, dt)
    IN  IF ~svc.ok THEN Ret(<<>>, svc.result, [stage |-> "auth"])
        ELSE IF ~p.ok THEN Ret(<<>>, unexpected_failure("ValueError"), [stage |-> "parse"])
        ELSE IF e.list.type # "ok"
        THEN Ret(<<"events.list">>, request_error_result(e.list), [stage |-> "list"])
        ELSE IF \E i \in 1..Len(e.events) : event_at(e.events[i], dt) = "ValueError"
        THEN Ret(<<"events.list">>, Raised("ValueError"), [stage |-> "filter"])
        ELSE Ret(<<"events.list">>,
                 IF hit = <<>> THEN Result("NO_EVENTS", <<>>) ELSE Result("EVENTS", hit),
                 [stage |-> "filter", window |-> window])

\* -------------------------------------------------------------- list_events
list_events_fn(a, e) ==
    LET svc == get_service(e)
    IN  IF ~svc.ok THEN Ret(<<>>, svc.result, [stage |-> "auth"])
        ELSE IF e.list.type # "ok"
        THEN Ret(<<"events.list">>, request_error_result(e.list), [stage |-> "list"])
        ELSE Ret(<<"events.list">>,
                 IF e.n_events = 0 THEN Result("NO_UPCOMING_EVENTS", <<>>)
                 ELSE Result("UPCOMING_EVENTS", <<e.n_events>>),
                 [stage |-> "list"])

\* ------------------------------------------------------------------ inputs
\* Offsets a text or the system clock may carry: UTC and +02:00.
Offsets == {0, 120}

\* What get_credentials does.
Creds == {"ok", "FileNotFoundError", "Exception"}

\* What a provider request does.
Outcomes ==
    {Answered, Outcome("exc", 0, FALSE)}
    \cup {Outcome("http", st, qf) : st \in {400, 403, 404, 500}, qf \in BOOLEAN}

\* settings().get(setting="timezone"): fails, answers without a value, or
\* answers with the account zone (UTC, or one at -05:00).
TzReads ==
    {[type |-> "exc", has_value |-> FALSE, value |-> 0],
     [type |-> "ok", has_value |-> FALSE, value |-> 0],
     [type |-> "ok", has_value |-> TRUE, value |-> 0],
     [type |-> "ok", has_value |-> TRUE, value |-> 0 - 300]}

At(day, hour, minute) == day * MinutesPerDay + hour * MinutesPerHour + minute

\* A text of wall clock loc written in offset off ("Z" when that is UTC).
Written(loc, off) == IF off = 0 THEN Text("Z", loc, 0) ELSE Text("offset", loc, off)

\* The provider's text for the instant utc, written in offset off.
ProviderText(utc, off) == Written(utc + off, off)

\* Busy instants (UTC): 07:20, 09:20, 10:00 of day 0 and 08:00 of day 1.
BusyPoints == {At(0, 7, 20), At(0, 9, 20), At(0, 10, 0), At(1, 8, 0)}

\* Busy intervals with start <= end, all written in one offset.
BusyIntervals(off) ==
    {[start |-> ProviderText(s, off), end |-> ProviderText(en, off)] :
        <<s, en>> \in {p \in BusyPoints \X BusyPoints : p[1] <= p[2]}}

SeqsUpTo(S, n) == UNION {[1..k -> S] : k \in 0..n}

BusyLists == UNION {SeqsUpTo(BusyIntervals(off), MaxBusy) : off \in Offsets}

FreeBusy(o, busy) == [type |-> o.type, status |-> o.status, quota |-> o.quota, busy |-> busy]

GfsArgs(sd, ed, md, ws, we) ==
    [start_date |-> sd, end_date |-> ed, min_duration_minutes |-> md,
     working_hours_start |-> ws, working_hours_end |-> we]

GfsEnv(creds, tz_read, local_off, freebusy) ==
    [creds |-> creds, tz_read |-> tz_read, local_off |-> local_off, freebusy |-> freebusy]

StartLocs == {At(0, 9, 0), At(0, 17, 50)}
EndLocs == {At(0, 12, 0)} \cup {At(d, 11, 0) : d \in 1..MaxDay}

\* Well-formed texts and hours, every busy list.
CoreArgs ==
    {GfsArgs(Written(sl, off), Text("naive", el, 0), md, h[1], h[2]) :
        sl \in StartLocs, off \in Offsets, el \in EndLocs, md \in {30, 60},
        h \in {<<9, 18>>, <<10, 12>>}}

CoreInputs ==
    {<<a, GfsEnv("ok", [type |-> "ok", has_value |-> TRUE, value |-> 0], 0,
                 FreeBusy(Answered, busy))>> :
        a \in CoreArgs, busy \in BusyLists}

\* Every form of range text, malformed durations and hours, a few busy lists.
WideStarts ==
    {Text(f, sl, 0) : f \in {"naive", "Z"}, sl \in StartLocs}
    \cup {Text("offset", sl, 120) : sl \in StartLocs}
    \cup {Text("date", At(0, 0, 0), 0), Text("bad", 0, 0)}
WideEnds ==
    {Text("naive", el, 0) : el \in {At(0, 8, 0), At(MaxDay, 11, 0)}}
    \cup {Text("offset", el, 120) : el \in {At(0, 8, 0), At(MaxDay, 11, 0)}}
    \cup {Text("bad", 0, 0)}
WideArgs ==
    {GfsArgs(sd, ed, md, h[1], h[2]) :
        sd \in WideStarts, ed \in WideEnds, md \in {0 - 30, 0, 30},
        h \in {<<9, 18>>, <<18, 9>>, <<9, 9>>}}

NaiveBusy == [start |-> Text("naive", At(0, 9, 20), 0), end |-> Text("naive", At(0, 10, 0), 0)]
AwareBusy == [start |-> Text("Z", At(0, 9, 20), 0), end |-> Text("Z", At(0, 10, 0), 0)]
HalfNaiveBusy == [start |-> Text("Z", At(0, 9, 20), 0), end |-> Text("naive", At(0, 10, 0), 0)]
WideBusy == {<<>>, <<AwareBusy>>, <<NaiveBusy>>, <<HalfNaiveBusy>>, <<AwareBusy, NaiveBusy>>}

WideInputs ==
    {<<a, GfsEnv("ok", tzr, lo, FreeBusy(Answered, busy))>> :
        a \in WideArgs, tzr \in TzReads, lo \in Offsets, busy \in WideBusy}

\* Failing credentials and failing free/busy requests.
FailArgs ==
    {GfsArgs(sd, Text("naive", At(MaxDay, 11, 0), 0), 30, 9, 18) :
        sd \in {Text("Z", At(0, 9, 0), 0), Text("bad", 0, 0)}}
FailInputs ==
    {<<a, GfsEnv(c, [type |-> "ok", has_value |-> TRUE, value |-> 0], 0,
                 FreeBusy(o, <<>>))>> :
        a \in FailArgs, c \in Creds, o \in Outcomes}

GfsInputs == CoreInputs \cup WideInputs \cup FailInputs

OptInt(some, v) == [some |-> some, v |-> v]

CreateInputs ==
    {<<[start_time |-> st, duration_minutes |-> 60],
       [creds |-> c, local_off |-> lo, now |-> At(0, 11, 0), insert |-> o]>> :
        st \in {Text("naive", At(0, 10, 0), 0), Text("naive", At(0, 12, 0), 0),
                Text("Z", At(0, 10, 0), 0), Text("Z", At(0, 11, 0), 0),
                Text("offset", At(0, 12, 30), 120), Text("bad", 0, 0)},
        c \in Creds, lo \in Offsets, o \in Outcomes}

Existing ==
    {[start |-> Some(Text("Z", At(0, 10, 0), 0)), end |-> Some(Text("Z", At(0, 11, 0), 0))],
     [start |-> Some(Text("naive", At(0, 10, 0), 0)), end |-> Some(Text("Z", At(0, 11, 0), 0))],
     [start |-> Some(Text("date", At(0, 0, 0), 0)), end |-> Some(Text("date", At(1, 0, 0), 0))],
     [start |-> Some(Text("Z", At(0, 10, 0), 0)), end |-> None],
     [start |-> None, end |-> None]}

UpdateInputs ==
    {<<[event_id |-> "ev1", has_title |-> ht, start_time |-> st, duration_minutes |-> dm,
        has_description |-> hd, has_location |-> FALSE],
       [creds |-> c, get |-> og, existing |-> ex, patch |-> op]>> :
        ht \in BOOLEAN, hd \in BOOLEAN,
        st \in {None, Some(Text("Z", At(0, 12, 0), 0)), Some(Text("bad", 0, 0))},
        dm \in {OptInt(FALSE, 0), OptInt(TRUE, 30)},
        c \in Creds, og \in Outcomes, ex \in Existing, op \in {Answered, Outcome("http", 404, FALSE)}}
    \cup
    {<<[event_id |-> "ev1", has_title |-> TRUE, start_time |-> None,
        duration_minutes |-> OptInt(FALSE, 0), has_description |-> FALSE, has_location |-> hl],
       [creds |-> "ok", get |-> Answered, existing |-> ex, patch |-> op]>> :
        hl \in BOOLEAN, ex \in Existing, op \in Outcomes}

Events ==
    {[start |-> Some(Text("Z", At(0, 9, 0), 0)), end |-> Some(Text("Z", At(0, 10, 0), 0))],
     [start |-> Some(Text("naive", At(0, 9, 30), 0)), end |-> Some(Text("naive", At(0, 11, 0), 0))],
     [start |-> Some(Text("date", At(0, 0, 0), 0)), end |-> Some(Text("date", At(1, 0, 0), 0))],
     [start |-> Some(Text("Z", At(0, 9, 0), 0)), end |-> None],
     [start |-> Some(Text("bad", 0, 0)), end |-> Some(Text("Z", At(0, 10, 0), 0))]}

AtTimeInputs ==
    {<<[datetime_str |-> ds],
       [creds |-> c, local_off |-> lo, list |-> o, events |-> evs]>> :
        ds \in {Text("naive", At(0, 10, 0), 0), Text("Z", At(0, 10, 0), 0),
                Text("offset", At(0, 13, 0), 120), Text("bad", 0, 0)},
        c \in Creds, lo \in Offsets, o \in {Answered, Outcome("http", 500, FALSE)},
        evs \in SeqsUpTo(Events, 1)}
    \cup
    {<<[datetime_str |-> Text("Z", At(0, 10, 0), 0)],
       [creds |-> "ok", local_off |-> 0, list |-> o, events |-> evs]>> :
        o \in Outcomes, evs \in SeqsUpTo(Events, 2)}

ListInputs ==
    {<<[max_results |-> 10], [creds |-> c, list |-> o, n_events |-> n]>> :
        c \in Creds, o \in Outcomes, n \in 0..1}

\* ------------------------------------------------------------ state machine
Idle == [op |-> "idle"]

Init ==
    /\ call = Idle
    /\ env = [creds |-> "ok"]
    /\ requests = <<>>
    /\ result = Result("", <<>>)
    /\ locals = [stage |-> "idle"]

\* One tool call, from the arguments to the returned text; the server takes
\* a call when it is idle.
Handle(op, a, e, r) ==
    /\ call' = [op |-> op, args |-> a]
    /\ env' = e
    /\ requests' = r.requests
    /\ result' = r.result
    /\ locals' = r.locals

create_event ==
    /\ call = Idle
    /\ \E inp \in CreateInputs :
          Handle("create_event", inp[1], inp[2], create_event_fn(inp[1], inp[2]))

update_event ==
    /\ call = Idle
    /\ \E inp \in UpdateInputs :
          Handle("update_event", inp[1], inp[2], update_event_fn(inp[1], inp[2]))

get_free_slots ==
    /\ call = Idle
    /\ \E inp \in GfsInputs :
          Handle("get_free_slots", inp[1], inp[2], get_free_slots_fn(inp[1], inp[2]))

get_events_at_time ==
    /\ call = Idle
    /\ \E inp \in AtTimeInputs :
          Handle("get_events_at_time", inp[1], inp[2], get_events_at_time_fn(inp[1], inp[2]))

list_events ==
    /\ call = Idle
    /\ \E inp \in ListInputs :
          Handle("list_events", inp[1], inp[2], list_events_fn(inp[1], inp[2]))

\* The text has gone back to the caller; the server holds no state of the call.
Return ==
    /\ call # Idle
    /\ call' = Idle
    /\ env' = [creds |-> "ok"]
    /\ requests' = <<>>
    /\ result' = Result("", <<>>)
    /\ locals' = [stage |-> "idle"]

Next ==
    \/ create_event
    \/ update_event
    \/ get_free_slots
    \/ get_events_at_time
    \/ list_events
    \/ Return

Spec == Init /\ [][Next]_vars

\* ================================================================== claims
\* get_free_slots ran its sweep to the end and returned slots (possibly none).
GfsReturned ==
    /\ call.op = "get_free_slots"
    /\ result.kind \in {"FREE_SLOTS", "NO_FREE_SLOTS"}

\* The sequence of free slots the sweep built, as returned.
Slots == result.data

SlotLen(sl) == Utc(sl.end) - Utc(sl.start)

Min2(x, y) == IF x <= y THEN x ELSE y
Max2(x, y) == IF x >= y THEN x ELSE y

\* Minutes two intervals have in common.
Shared(a, b) == Min2(Utc(a.end), Utc(b.end)) - Max2(Utc(a.start), Utc(b.start))

\* The busy intervals as the provider sent them, parsed.
InputBusy == [i \in 1..Len(env.freebusy.busy) |-> parse_busy(env.freebusy.busy[i])]

\* C1. Busy exclusion: no free slot returned by get_free_slots shares a
\* positive-length stretch of time with any busy interval of the input list,
\* whatever the order of the list and however its intervals overlap or touch.
C1_BusyExclusion ==
    GfsReturned =>
        \A i \in 1..Len(Slots), j \in 1..Len(InputBusy) :
            Shared(Slots[i], InputBusy[j]) <= 0

\* A positive-length busy interval cut the free time in two: one slot ends
\* where it starts, another starts where it ends.
C1_Witness ==
    /\ GfsReturned
    /\ \E j \in 1..Len(InputBusy) :
          /\ SlotLen(InputBusy[j]) > 0
          /\ \E i \in 1..Len(Slots) : Utc(Slots[i].end) = Utc(InputBusy[j].start)
          /\ \E i \in 1..Len(Slots) : Utc(Slots[i].start) = Utc(InputBusy[j].end)

\* Wall clock of datetime d read in offset off.
LocalIn(d, off) == Utc(d) + off

WellFormedHours ==
    /\ 0 <= call.args.working_hours_start
    /\ call.args.working_hours_start < call.args.working_hours_end
    /\ call.args.working_hours_end < HoursPerDay

\* C2. Working-hours containment: with 0 <= startHour < endHour < 24, every
\* free slot returned starts and ends on one calendar day and lies within
\* [startHour:00, endHour:00] of that day, day and hours read in the slot's
\* own offset (the offset its start carries).
C2_WorkingHours ==
    (GfsReturned /\ WellFormedHours) =>
        \A i \in 1..Len(Slots) :
            LET off == Slots[i].start.off
                s == LocalIn(Slots[i].start, off)
                en == LocalIn(Slots[i].end, off)
                day == s \div MinutesPerDay
            IN  /\ en \div MinutesPerDay = day
                /\ day * MinutesPerDay + call.args.working_hours_start * MinutesPerHour <= s
                /\ en <= day * MinutesPerDay + call.args.working_hours_end * MinutesPerHour

\* The range runs past the end of a working day, and the slot of that day was
\* cut at endHour:00 while a later slot follows on another day.
C2_Witness ==
    /\ GfsReturned /\ WellFormedHours
    /\ Len(Slots) >= 2
    /\ LET off == Slots[1].start.off
       IN  /\ LocalIn(Slots[1].end, off) % MinutesPerDay
                 = call.args.working_hours_end * MinutesPerHour
           /\ LocalIn(Slots[2].start, off) \div MinutesPerDay
                 > LocalIn(Slots[1].start, off) \div MinutesPerDay

\* C3. Non-overlap and order: the sequence of free slots, as the sweep built
\* it, is strictly increasing by start instant, and each slot ends at or
\* before the start of the next.
C3_Ordered ==
    GfsReturned =>
        \A i \in 1..(Len(Slots) - 1) :
            /\ Utc(Slots[i].start) < Utc(Slots[i + 1].start)
            /\ Utc(Slots[i].end) <= Utc(Slots[i + 1].start)

\* An unsorted busy list of two intervals gave three slots or more.
C3_Witness ==
    /\ GfsReturned
    /\ Len(Slots) >= 3
    /\ Len(InputBusy) = 2
    /\ Utc(InputBusy[1].start) > Utc(InputBusy[2].start)

\* C4. Duration floor: every free slot returned is at least
\* min_duration_minutes long.
C4_DurationFloor ==
    GfsReturned =>
        \A i \in 1..Len(Slots) :
            SlotLen(Slots[i]) * SecondsPerMinute
                >= call.args.min_duration_minutes * SecondsPerMinute

\* Scenario E: the range starts at the start of working hours, a busy
\* interval starts 20 minutes later, the minimum is 30 minutes, and no slot
\* starts at the range start although later slots were returned.
C4_Witness ==
    /\ GfsReturned
    /\ result.kind = "FREE_SLOTS"
    /\ call.args.min_duration_minutes = 30
    /\ locals.start_dt = work_start(locals.start_dt, call.args)
    /\ \E j \in 1..Len(InputBusy) :
          /\ Utc(InputBusy[j].start) - Utc(locals.start_dt) = 20
          /\ \A k \in 1..Len(InputBusy) : Utc(InputBusy[k].start) >= Utc(InputBusy[j].start)
    /\ \A i \in 1..Len(Slots) : Utc(Slots[i].start) > Utc(locals.start_dt) + 20

RECURSIVE TotalLen(_)
TotalLen(ss) == IF ss = <<>> THEN 0 ELSE SlotLen(ss[1]) + TotalLen(SubSeq(ss, 2, Len(ss)))

\* Minutes of the range inside the working window of day d, the day and its
\* hours read in the range start's offset.
Piece(d) ==
    LET off == locals.start_dt.off
        ws == d * MinutesPerDay + call.args.working_hours_start * MinutesPerHour - off
        we == d * MinutesPerDay + call.args.working_hours_end * MinutesPerHour - off
    IN  Max2(0, Min2(Utc(locals.end_dt), we) - Max2(Utc(locals.start_dt), ws))

\* Sum over days d..hi of the pieces at least floor minutes long.
RECURSIVE SumPieces(_, _, _)
SumPieces(d, hi, floor) ==
    IF d > hi THEN 0
    ELSE (IF Piece(d) >= floor THEN Piece(d) ELSE 0) + SumPieces(d + 1, hi, floor)

FirstDay == (LocalIn(locals.start_dt, locals.start_dt.off) \div MinutesPerDay) - 1
LastDay == (LocalIn(locals.end_dt, locals.start_dt.off) \div MinutesPerDay) + 1

NoBusyCall ==
    /\ GfsReturned
    /\ env.freebusy.busy = <<>>
    /\ call.args.min_duration_minutes > 0

\* C5 as stated. No-busy total coverage: with an empty busy list and
\* minDuration > 0 the durations of the returned slots add up to exactly the
\* duration of the range intersected with the daily working-hour windows.
C5_TotalCoverage_Original ==
    NoBusyCall => TotalLen(Slots) = SumPieces(FirstDay, LastDay, 0)

\* C5 as amended. With an empty busy list and minDuration > 0 the durations of
\* the returned slots add up to exactly the total of those per-day pieces of
\* (range intersected with the working-hour window) that are at least
\* minDuration long; a shorter piece is dropped.
C5_TotalCoverage ==
    NoBusyCall =>
        TotalLen(Slots) = SumPieces(FirstDay, LastDay, call.args.min_duration_minutes)

\* A range whose first day leaves a piece shorter than the minimum, dropped,
\* and whose later day gives a slot.
C5_Witness ==
    /\ NoBusyCall
    /\ TotalLen(Slots) > 0
    /\ TotalLen(Slots) < SumPieces(FirstDay, LastDay, 0)

\* Two busy intervals overlap or touch.
Mergeable(a, b) == Max2(Utc(a.start), Utc(b.start)) <= Min2(Utc(a.end), Utc(b.end))

\* The provider's text of the union of busy[i] and busy[j].
UnionText(busy, i, j) ==
    LET a == parse_busy(busy[i])
        b == parse_busy(busy[j])
    IN  [start |-> IF Utc(b.start) < Utc(a.start) THEN busy[j].start ELSE busy[i].start,
         end |-> IF Utc(b.end) > Utc(a.end) THEN busy[j].end ELSE busy[i].end]

\* The list with busy[i] replaced by the union and busy[j] removed (i < j).
MergedBusy(busy, i, j) ==
    [k \in 1..(Len(busy) - 1) |->
        IF k = i THEN UnionText(busy, i, j)
        ELSE IF k < j THEN busy[k] ELSE busy[k + 1]]

\* C6. Idempotence under busy-interval merge: replacing two overlapping or
\* adjacent busy intervals of the input list by their union makes
\* get_free_slots return the identical sequence of free slots.
C6_MergeIdempotent ==
    GfsReturned =>
        \A i, j \in 1..Len(InputBusy) :
            (i < j /\ Mergeable(InputBusy[i], InputBusy[j])) =>
                get_free_slots_fn(call.args,
                    [env EXCEPT !.freebusy.busy = MergedBusy(env.freebusy.busy, i, j)]).result
                  = result

\* Two distinct positive-length busy intervals that touch or overlap, the
\* later-starting one first in the list, with free slots on both sides.
C6_Witness ==
    /\ GfsReturned
    /\ Len(Slots) >= 2
    /\ \E i, j \in 1..Len(InputBusy) :
          /\ i < j
          /\ Mergeable(InputBusy[i], InputBusy[j])
          /\ SlotLen(InputBusy[i]) > 0 /\ SlotLen(InputBusy[j]) > 0
          /\ Utc(InputBusy[j].start) < Utc(InputBusy[i].start)
          /\ \E k \in 1..Len(Slots) : Utc(Slots[k].end) = Utc(InputBusy[j].start)
          /\ \E k \in 1..Len(Slots) : Utc(Slots[k].start) >= Utc(InputBusy[i].end)

\* The query as the sweep receives it is malformed.
Malformed ==
    \/ Gt(locals.start_dt, locals.end_dt)
    \/ call.args.min_duration_minutes <= 0
    \/ call.args.working_hours_start >= call.args.working_hours_end

\* C7 as stated. A malformed query (range start after range end, non-positive
\* min_duration_minutes, working_hours_start >= working_hours_end) is
\* rejected with a precondition error: get_free_slots returns neither a
\* free-slot result nor the "no free slots" result for it.
C7_MalformedRejected ==
    (call.op = "get_free_slots" /\ locals.stage \in {"query", "busy", "sweep"} /\ Malformed) =>
        /\ result.kind = "PRECONDITION_ERROR"
        /\ result.kind \notin {"FREE_SLOTS", "NO_FREE_SLOTS"}

\* C8 as stated. Normalization invariant: every instant the sweep compares or
\* does arithmetic on carries a concrete offset: the range bounds and every
\* busy-interval bound parsed from the provider's text.
C8_SweepInstantsAware ==
    (call.op = "get_free_slots" /\ locals.stage = "sweep") =>
        /\ locals.start_dt.aware
        /\ locals.end_dt.aware
        /\ \A i \in 1..Len(locals.busy_ranges) :
              locals.busy_ranges[i].start.aware /\ locals.busy_ranges[i].end.aware

\* C9 as stated. The account timezone read from the provider (UTC when the
\* read fails) is the offset get_free_slots gives a naive start_date.
C9_AccountTimezoneApplied ==
    (/\ call.op = "get_free_slots"
     /\ locals.stage \in {"query", "busy", "sweep"}
     /\ call.args.start_date.form \in {"naive", "date"}) =>
        locals.start_dt.off = locals.tz

Tools == {"create_event", "update_event", "get_free_slots", "get_events_at_time", "list_events"}

\* C10. When get_credentials raises FileNotFoundError, each of the five tools
\* returns the authentication-expired error and sends no request to the
\* calendar provider.
C10_AuthExpired ==
    (call.op \in Tools /\ env.creds = "FileNotFoundError") =>
        /\ result = AUTH_EXPIRED
        /\ requests = <<>>

\* update_event was called without credentials and returned the error.
C10_Witness ==
    /\ call.op = "update_event"
    /\ env.creds = "FileNotFoundError"
    /\ result = AUTH_EXPIRED
    /\ requests = <<>>

\* The instant the start_time text denotes, a naive text taken in the local
\* system offset.
CreateStartInstant ==
    LET t == call.args.start_time
    IN  CASE t.form = "Z" -> t.loc
          [] t.form = "offset" -> t.loc - t.off
          [] t.form = "naive" -> t.loc - env.local_off
          [] t.form = "date" -> (t.loc \div MinutesPerDay) * MinutesPerDay - env.local_off

\* create_event got credentials and parsed its start_time.
CreateParsed ==
    /\ call.op = "create_event"
    /\ env.creds = "ok"
    /\ call.args.start_time.form # "bad"

\* C11. create_event never inserts an event that starts in the past: when the
\* parsed start_time (a naive one taken in the local system offset) is
\* strictly before the current time, it returns the event-in-past error and
\* the provider's insert is not invoked; insert is invoked only when the
\* start is not before the current time.
C11_NoInsertInPast ==
    CreateParsed =>
        /\ (CreateStartInstant < env.now) =>
              /\ result = event_in_past(call.args.start_time)
              /\ requests = <<>>
        /\ ("events.insert" \in {requests[i] : i \in 1..Len(requests)}) =>
              CreateStartInstant >= env.now

\* A naive start_time whose wall clock is later than the UTC clock but which,
\* taken at +02:00, lies before now: refused, nothing inserted.
C11_Witness ==
    /\ CreateParsed
    /\ call.args.start_time.form = "naive"
    /\ call.args.start_time.loc > env.now
    /\ CreateStartInstant < env.now
    /\ result.kind = "EVENT_IN_PAST"
    /\ requests = <<>>

\* C12. In update_event, when fetching the existing event fails, exactly one
\* error is returned and no patch is sent: a 404 gives event-not-found naming
\* the event id, a 403 mentioning quota gives the quota error, a status >= 500
\* gives the network-failure error, any other failure the unexpected-failure
\* error.
C12_GetFailure ==
    (call.op = "update_event" /\ env.creds = "ok" /\ env.get.type # "ok") =>
        /\ requests = <<"events.get">>
        /\ result.kind =
              (CASE env.get.type = "http" /\ env.get.status = 404 -> "EVENT_NOT_FOUND"
                 [] env.get.type = "http" /\ env.get.status = 403 /\ env.get.quota
                      -> "QUOTA_EXCEEDED"
                 [] env.get.type = "http" /\ env.get.status >= 500 -> "NETWORK_FAILURE"
                 [] OTHER -> "UNEXPECTED_FAILURE")
        /\ result.kind = "EVENT_NOT_FOUND" => result.data = <<call.args.event_id>>

\* The fetch answered 404 for a call that asked for changes: the error names
\* the event id and only the get was sent.
C12_Witness ==
    /\ call.op = "update_event"
    /\ env.creds = "ok"
    /\ env.get.type = "http" /\ env.get.status = 404
    /\ call.args.has_title
    /\ result = event_not_found("ev1")
    /\ requests = <<"events.get">>

\* A well-formed query whose range ends and busy intervals are all written in
\* the offset of the range start, each busy interval with start <= end.
WellFormedCommonOffset ==
    /\ GfsReturned
    /\ WellFormedHours
    /\ call.args.min_duration_minutes > 0
    /\ Le(locals.start_dt, locals.end_dt)
    /\ locals.end_dt.off = locals.start_dt.off
    /\ \A j \in 1..Len(InputBusy) :
          /\ InputBusy[j].start.aware /\ InputBusy[j].end.aware
          /\ InputBusy[j].start.off = locals.start_dt.off
          /\ InputBusy[j].end.off = locals.start_dt.off
          /\ Utc(InputBusy[j].start) <= Utc(InputBusy[j].end)

\* Start and end instant of the working window of day d, the day and its
\* hours read in the range start's offset.
WindowStart(d) ==
    d * MinutesPerDay + call.args.working_hours_start * MinutesPerHour - locals.start_dt.off
WindowEnd(d) ==
    d * MinutesPerDay + call.args.working_hours_end * MinutesPerHour - locals.start_dt.off

\* The range intersected with the working window of day d.
PieceLo(d) == Max2(Utc(locals.start_dt), WindowStart(d))
PieceHi(d) == Min2(Utc(locals.end_dt), WindowEnd(d))

\* Every instant at which free time can begin or end.
Cuts ==
    {Utc(locals.start_dt), Utc(locals.end_dt)}
    \cup {WindowStart(d) : d \in FirstDay..LastDay}
    \cup {WindowEnd(d) : d \in FirstDay..LastDay}
    \cup {Utc(InputBusy[j].start) : j \in 1..Len(InputBusy)}
    \cup {Utc(InputBusy[j].end) : j \in 1..Len(InputBusy)}

\* [s, e] contains no interior point of any busy interval.
NoBusyInterior(s, e) ==
    \A j \in 1..Len(InputBusy) :
        Min2(e, Utc(InputBusy[j].end)) - Max2(s, Utc(InputBusy[j].start)) <= 0

\* The maximal intervals of (range intersected with the daily working
\* windows) that contain no interior point of any busy interval and are at
\* least min_duration_minutes long, as pairs of instants.
MaximalFree ==
    {p \in Cuts \X Cuts :
        /\ p[1] < p[2]
        /\ p[2] - p[1] >= call.args.min_duration_minutes
        /\ NoBusyInterior(p[1], p[2])
        /\ \E d \in FirstDay..LastDay :
              /\ PieceLo(d) <= p[1] /\ p[2] <= PieceHi(d)
              /\ \A c \in Cuts : (PieceLo(d) <= c /\ c < p[1]) => ~NoBusyInterior(c, p[2])
              /\ \A c \in Cuts : (p[2] < c /\ c <= PieceHi(d)) => ~NoBusyInterior(p[1], c)}

\* The slots returned, as pairs of instants.
SlotInstants == {<<Utc(Slots[i].start), Utc(Slots[i].end)>> : i \in 1..Len(Slots)}

\* C13. Exactness of the sweep: for every well-formed query and every busy
\* list with start <= end per interval, all instants in one common offset, the
\* slots returned by get_free_slots are exactly the maximal intervals of
\* (range intersected with the daily working windows) that contain no interior
\* point of any busy interval and are at least min_duration_minutes long; a
\* busy interval outside the range or of zero length changes nothing.
C13_SweepExact ==
    WellFormedCommonOffset =>
        /\ SlotInstants = MaximalFree
        /\ Len(Slots) = Cardinality(MaximalFree)

\* A well-formed query answered with busy intervals that all carry an offset.
WellFormedAware ==
    /\ GfsReturned
    /\ WellFormedHours
    /\ call.args.min_duration_minutes > 0
    /\ Le(locals.start_dt, locals.end_dt)
    /\ \A j \in 1..Len(InputBusy) :
          /\ InputBusy[j].start.aware /\ InputBusy[j].end.aware
          /\ Utc(InputBusy[j].start) <= Utc(InputBusy[j].end)

\* The busy list denoting the same instants, written in offset off.
BusyWrittenIn(off) ==
    [j \in 1..Len(InputBusy) |->
        [start |-> ProviderText(Utc(InputBusy[j].start), off),
         end |-> ProviderText(Utc(InputBusy[j].end), off)]]

\* A sequence of slots as a sequence of pairs of instants.
Instants(ss) == [i \in 1..Len(ss) |-> <<Utc(ss[i].start), Utc(ss[i].end)>>]

\* C14. Offset independence of the result: the free slots get_free_slots
\* returns depend only on the instants the busy intervals denote, not on the
\* offset the provider writes them in; the busy list as received and the same
\* list written in the range's offset yield the same sequence of free slots
\* as instants.
C14_OffsetIndependent ==
    WellFormedAware =>
        Instants(get_free_slots_fn(call.args,
                    [env EXCEPT !.freebusy.busy = BusyWrittenIn(locals.start_dt.off)]).result.data)
          = Instants(Slots)

====
